---- MODULE Spec2Model ----
(***************************************************************************)
(* sequelize-handlers: generic CRUD route handlers over a Sequelize model. *)
(*                                                                         *)
(* Two copies of the request handlers exist in the sources and both are    *)
(* modelled: the closures registered inline by createController (index.js) *)
(* and the exported functions findOne / findAll / createRecord /           *)
(* updateRecord / deleteRecord (handlers module).  A request record says   *)
(* which copy serves it (impl).  Each handler is an operation of its own:  *)
(* serving a request is one step, from the arrival of the request to the   *)
(* response (or the exception) that ends it.  The storage layer            *)
(* (Sequelize) is external: it is a table of rows plus a nondeterministic  *)
(* choice of the one call that fails and the error it fails with.  The     *)
(* construction of a controller (createController) is specified apart, in  *)
(* FactorySpec.                                                            *)
(***************************************************************************)
EXTENDS Integers, Sequences, FiniteSets, TLC

\* ------------------------------------------------------------------ bounds
MaxId == 2          \* rows have ids "1" .. MaxId
MaxViolations == 2  \* entries of a validation error's `errors` list

\* ------------------------------------------------------------ JSON values
\* A JavaScript value is [t |-> typeof, v |-> text].  Numbers carry their
\* decimal text; only canonical decimal strings occur, so that the abstract
\* equality of a string and a number (ToNumber(string) = number) is equality
\* of the texts.
Undef == [t |-> "undefined", v |-> ""]
Null == [t |-> "null", v |-> ""]
Num(s) == [t |-> "number", v |-> s]
Str(s) == [t |-> "string", v |-> s]

Decimal == <<"1", "2", "3", "4", "5", "6", "7", "8", "9">>
Ids == { Decimal[i] : i \in 1..MaxId }
Authors == {"1", "2"}
Titles == {"a", "b"}

\* the comparison inverted (== for !=)
LooseNeqFlip(x, y) ==
    IF y.t \in {"number", "string"} THEN x = y.v ELSE FALSE

\* x != y of JavaScript, for a string x (a path parameter)
LooseNeq(x, y) ==
    IF y.t \in {"number", "string"} THEN x # y.v ELSE TRUE

\* ---------------------------------------------------------------- storage
NoRow == [authorId |-> "", title |-> ""]
Rows == [authorId : Authors, title : Titles]
Tables == [Ids -> Rows \cup {NoRow}]

NoCond == [op |-> "none", v |-> ""]
Eq(v) == [op |-> "eq", v |-> v]
NoWhere == [id |-> NoCond, authorId |-> NoCond, title |-> NoCond]

\* one column of a row against one condition of a filter map; a pattern is
\* matched as SQL LIKE '%x%' on single-character column values
Holds(cond, value) ==
    CASE cond.op = "none" -> TRUE
      [] cond.op = "eq" -> cond.v = value
      [] OTHER -> cond.v = "%" \o value \o "%"

Matching(table, where) ==
    { i \in Ids : /\ table[i] # NoRow
                  /\ Holds(where.id, i)
                  /\ Holds(where.authorId, table[i].authorId)
                  /\ Holds(where.title, table[i].title) }

Index(i) == CHOOSE k \in 1..Len(Decimal) : Decimal[k] = i
First(S) == CHOOSE i \in S : \A j \in S : Index(i) <= Index(j)

Record(table, i) == [id |-> i, authorId |-> table[i].authorId, title |-> table[i].title]

\* ----------------------------------------------------------------- errors
ErrorNames == { "SequelizeValidationError", "SequelizeUniqueConstraintError",
                "SequelizeForeignKeyConstraintError", "SequelizeDatabaseError",
                "Error" }
Violation(k) == [message |-> "invalid", path |-> IF k = 1 THEN "title" ELSE "id"]
Violations == { [k \in 1..n |-> Violation(k)] : n \in 1..MaxViolations }

NoError == [name |-> "", message |-> "", errors |-> <<>>, ref |-> ""]
notFound == [name |-> "Error", message |-> "record not found", errors |-> <<>>,
             ref |-> "errors.notFound"]
TypeError == [name |-> "TypeError", message |-> "Cannot read property of undefined",
              errors |-> <<>>, ref |-> ""]
HookError == [name |-> "Error", message |-> "hook failed", errors |-> <<>>, ref |-> ""]
StorageErrors ==
    { [name |-> n, message |-> "storage failed", errors |-> vs, ref |-> ""] :
        n \in {"SequelizeValidationError", "SequelizeUniqueConstraintError"},
        vs \in Violations }
    \cup
    { [name |-> n, message |-> "storage failed", errors |-> <<>>, ref |-> ""] :
        n \in {"SequelizeForeignKeyConstraintError", "SequelizeDatabaseError", "Error"} }

\* ------------------------------------------------- configuration, requests
HookNames == {"beforeQuery", "beforeUpdate", "afterUpdate", "afterCreate"}

\* the defaults createController merges the caller's options over
Defaults ==
    [ allowChangingPrimaryKey |-> FALSE,
      includeRelationsInGetAll |-> FALSE,
      overrideOutputName |-> "",
      limit |-> Undef,
      relationships |-> <<>>,
      useLike |-> TRUE,
      hooks |-> {} ]

\* the configurations requests are served under
Lenient == [Defaults EXCEPT !.allowChangingPrimaryKey = TRUE]
Renamed == [Defaults EXCEPT !.overrideOutputName = "item"]
Hooked == [Defaults EXCEPT !.hooks = HookNames]
Postgres ==
    [Defaults EXCEPT !.useLike = FALSE, !.limit = Num("10"),
                     !.includeRelationsInGetAll = TRUE, !.relationships = <<"author">>]

\* model.name
ModelName == "post"

\* req.body: {} or { post: { id?, title? } }
PkValues == {Undef, Null, Str("1")} \cup { Num(i) : i \in Ids }
Bodies ==
    { [hasKey |-> FALSE, id |-> Undef, title |-> Undef] }
    \cup { [hasKey |-> TRUE, id |-> v, title |-> t] :
             v \in PkValues, t \in {Undef, Str("b")} }

\* req.query: limit, offset, filter[field], search[field], attributes
NoQueryString ==
    [ limit |-> Undef, offset |-> Undef, filterField |-> "", filterValue |-> "",
      searchField |-> "", searchValue |-> "", attributes |-> "" ]
QueryStrings ==
    { NoQueryString,
      [NoQueryString EXCEPT !.limit = Str("1"), !.offset = Str("1"),
                            !.attributes = "id,title"] }
    \cup { [NoQueryString EXCEPT !.filterField = "id", !.filterValue = i] : i \in Ids }
    \cup { [NoQueryString EXCEPT !.searchField = "id", !.searchValue = i] : i \in Ids }
    \cup { [NoQueryString EXCEPT !.filterField = "authorId", !.filterValue = a] :
             a \in Authors }
    \cup { [NoQueryString EXCEPT !.searchField = "title", !.searchValue = t,
                                 !.attributes = "title"] : t \in Titles }

\* String.prototype.split(',') on the attribute lists that occur
Split(s) ==
    CASE s = "id,title" -> <<"id", "title">>
      [] OTHER -> <<s>>

\* --------------------------------------------------------- query builder
NoQuery ==
    [ where |-> NoWhere, hasInclude |-> FALSE, include |-> <<>>, limit |-> Undef,
      offset |-> Undef, returning |-> FALSE, attributes |-> <<>> ]

SetWhere(where, field, cond) ==
    IF field = "" THEN where ELSE [where EXCEPT ![field] = cond]

\* the filter map of buildWhere: the path id first, then filter[..] and
\* search[..] of a GET, each assignment overwriting the field's entry
WhereOf(method, r, options) ==
    LET w0 == IF r.id # "" THEN [NoWhere EXCEPT !.id = Eq(r.id)] ELSE NoWhere
        isGet == method = "GET"
        w1 == IF isGet THEN SetWhere(w0, r.qs.filterField, Eq(r.qs.filterValue)) ELSE w0
        w2 == IF isGet
              THEN SetWhere(w1, r.qs.searchField,
                     [ op |-> IF options.useLike THEN "$like" ELSE "$iLike",
                       v |-> "%" \o r.qs.searchValue \o "%" ])
              ELSE w1
    IN  w2

\* buildWhere, up to the before-query hook
buildWhere(method, r, options) ==
    [ where |-> WhereOf(method, r, options),
      hasInclude |-> TRUE,
      include |-> options.relationships,
      limit |-> CASE method = "DELETE" -> Num("1")
                  [] method = "GET" /\ r.qs.limit # Undef -> r.qs.limit
                  [] method = "GET" /\ options.limit # Undef -> options.limit
                  [] OTHER -> Undef,
      offset |-> IF method = "GET" THEN r.qs.offset ELSE Undef,
      returning |-> method = "POST",
      attributes |-> IF method = "GET" /\ r.qs.attributes # ""
                     THEN Split(r.qs.attributes) ELSE <<>> ]

\* ------------------------------------------------------- output formatter
Pluralize(s) == s \o "s"

KeyOf(plural, options) ==
    LET base == IF options.overrideOutputName # ""
                THEN options.overrideOutputName ELSE ModelName
    IN  IF plural THEN Pluralize(base) ELSE base

formatOutput(results, plural, options) ==
    [ k \in {KeyOf(plural, options)} |-> results ]

\* ------------------------------------------------------------- responses
Json(status, body) == [status |-> status, body |-> body]
MessageBody(e) == [errors |-> <<[message |-> e.message]>>]
ViolationBody(e) ==
    [errors |-> [k \in 1..Len(e.errors) |->
                    [message |-> e.errors[k].message, field |-> e.errors[k].path]]]
PrimaryKeyBody(pk) ==
    [errors |-> <<[message |-> "cannot change record primary key", field |-> pk]>>]

Ev(op, out) == [op |-> op, out |-> out]

\* what one run of a handler leaves behind: the responses sent, the calls
\* made (a response is the last statement of the branch that sends it),
\* the error its catch received, the exception that left the handler, the
\* table, and the query descriptor built
Out(res, events, caught, escaped, table, q) ==
    [ res |-> res,
      events |-> events \o [k \in 1..Len(res) |-> Ev("respond", "sent")],
      caught |-> caught, escaped |-> escaped, table |-> table, query |-> q ]

\* the one point where this run fails: a storage call rejecting with an
\* error, or an installed hook throwing
NoFault == [at |-> "", err |-> NoError]
Faults(options, calls) ==
    {NoFault}
    \cup { [at |-> c, err |-> e] : c \in calls \ HookNames, e \in StorageErrors }
    \cup { [at |-> h, err |-> HookError] : h \in calls \cap options.hooks }

\* options.hooks.<name>(...) when it is a function: the events of the call
HookEvents(name, options, fault) ==
    IF name \in options.hooks
    THEN <<Ev(name, IF fault.at = name THEN "throw" ELSE "ok")>>
    ELSE <<>>

\* Object.keys(input).forEach(field => result.set(field, input[field]))
SuppliedFields(body) ==
    (IF body.id # Undef THEN <<"id">> ELSE <<>>)
    \o (IF body.title # Undef THEN <<"title">> ELSE <<>>)
SetEventsFirstOnly(body) ==
    IF SuppliedFields(body) = <<>> THEN <<>> ELSE <<Ev("set", SuppliedFields(body)[1])>>
SetEvents(body) ==
    [k \in 1..Len(SuppliedFields(body)) |-> Ev("set", SuppliedFields(body)[k])]
SetFields(instance, body) ==
    [ instance EXCEPT
        !.id = IF body.id # Undef THEN body.id.v ELSE @,
        !.title = IF body.title # Undef THEN body.title.v ELSE @ ]

\* result.save(): the row the instance was read from takes the instance's
\* columns (the storage layer does not rename a row)
Save(table, i, instance) ==
    [table EXCEPT ![i] = [authorId |-> instance.authorId, title |-> instance.title]]

\* model.destroy(query): the rows deleted (at most query.limit)
Destroyed(table, q) ==
    LET m == Matching(table, q.where)
    IN  IF m = {} THEN {} ELSE IF q.limit = Num("1") THEN {First(m)} ELSE m
Destroy(table, q) ==
    [i \in Ids |-> IF i \in Destroyed(table, q) THEN NoRow ELSE table[i]]
Count(S) == IF S = {} THEN "0" ELSE Decimal[Cardinality(S)]

\* model.create(input, query): the id the new row gets ("" when none is free
\* or the requested one is taken, which the storage layer rejects)
FreeIds(table) == { i \in Ids : table[i] = NoRow }
NewId(table, body) ==
    IF body.hasKey /\ body.id.t \in {"number", "string"}
    THEN (IF body.id.v \in FreeIds(table) THEN body.id.v ELSE "")
    ELSE (IF FreeIds(table) = {} THEN "" ELSE First(FreeIds(table)))
NewRow(body, author) ==
    [ authorId |-> author,
      title |-> IF body.hasKey /\ body.title # Undef THEN body.title.v ELSE "a" ]

\* model.findAll(query): the matching rows in id order
RECURSIVE RowsOf(_, _)
RowsOf(table, S) ==
    IF S = {} THEN <<>>
    ELSE <<Record(table, First(S))>> \o RowsOf(table, S \ {First(S)})

\* ------------------------------------------- the routes of createController
\* GET /
IndexGetAll(r, table, fault) ==
    LET o == r.options
        b == buildWhere("GET", r, o)
        q == IF o.includeRelationsInGetAll THEN b
             ELSE [b EXCEPT !.hasInclude = FALSE, !.include = <<>>]
        hq == HookEvents("beforeQuery", o, fault)
    IN  IF fault.at = "beforeQuery" THEN Out(<<>>, hq, NoError, fault.err, table, b)
        ELSE IF fault.at = "findAll"
        THEN Out(<<Json(500, MessageBody(fault.err))>>,
                 hq \o <<Ev("findAll", fault.err.name)>>, fault.err, NoError, table, q)
        ELSE Out(<<Json(200, formatOutput(RowsOf(table, Matching(table, q.where)), TRUE, o))>>,
                 hq \o <<Ev("findAll", "ok")>>, NoError, NoError, table, q)

\* the catch without its not-found case
IndexGetOneCatchGeneric(e) == Json(500, MessageBody(e))

\* GET /:id, the catch
IndexGetOneCatch(e) ==
    IF e = notFound THEN Json(404, MessageBody(e)) ELSE Json(500, MessageBody(e))

\* GET /:id
IndexGetOne(r, table, fault) ==
    LET o == r.options
        q == buildWhere("GET", r, o)
        hq == HookEvents("beforeQuery", o, fault)
        m == Matching(table, q.where)
    IN  IF fault.at = "beforeQuery" THEN Out(<<>>, hq, NoError, fault.err, table, q)
        ELSE IF fault.at = "findOne"
        THEN Out(<<IndexGetOneCatch(fault.err)>>,
                 hq \o <<Ev("findOne", fault.err.name)>>, fault.err, NoError, table, q)
        ELSE IF m = {}
        THEN Out(<<IndexGetOneCatch(notFound)>>,
                 hq \o <<Ev("findOne", "null")>>, notFound, NoError, table, q)
        ELSE Out(<<Json(200, formatOutput(Record(table, First(m)), FALSE, o))>>,
                 hq \o <<Ev("findOne", "ok")>>, NoError, NoError, table, q)

\* POST /, the catch
IndexPostCatch(e) ==
    IF e.name \in {"SequelizeValidationError", "SequelizeUniqueConstraintError"}
    THEN Json(422, ViolationBody(e))
    ELSE Json(500, MessageBody(e))

\* POST /
IndexPost(r, table, fault) ==
    LET o == r.options
        q == buildWhere("POST", r, o)
        hq == HookEvents("beforeQuery", o, fault)
        i == NewId(table, r.body)
        created == [table EXCEPT ![i] = NewRow(r.body, r.author)]
        ha == HookEvents("afterCreate", o, fault)
    IN  IF fault.at = "beforeQuery" THEN Out(<<>>, hq, NoError, fault.err, table, q)
        ELSE IF fault.at = "create"
        THEN Out(<<IndexPostCatch(fault.err)>>,
                 hq \o <<Ev("create", fault.err.name)>>, fault.err, NoError, table, q)
        ELSE IF fault.at = "afterCreate"
        THEN Out(<<IndexPostCatch(fault.err)>>,
                 hq \o <<Ev("create", "ok")>> \o ha, fault.err, NoError, created, q)
        ELSE Out(<<Json(200, formatOutput(Record(created, i), FALSE, o))>>,
                 hq \o <<Ev("create", "ok")>> \o ha, NoError, NoError, created, q)

\* PUT /:id, the catch
IndexPutCatch(e) ==
    CASE e.name \in {"SequelizeValidationError", "SequelizeUniqueConstraintError"} ->
            Json(422, ViolationBody(e))
      [] e.name = "SequelizeDatabaseError" -> Json(422, MessageBody(e))
      [] e = notFound -> Json(404, MessageBody(e))
      [] OTHER -> Json(500, MessageBody(e))

\* PUT /:id, the guard against changing the primary key: "throws" when the
\* body has no entry for the model, "reject" when the keys differ
IndexPutGuard(r) ==
    IF ~r.options.allowChangingPrimaryKey /\ r.pk # ""
    THEN (IF ~r.body.hasKey THEN "throws"
          ELSE IF r.body.id # Undef /\ LooseNeq(r.id, r.body.id) THEN "reject"
          ELSE "pass")
    ELSE "pass"

\* PUT /:id, the promise chain from findOne to the response
IndexPutChain(r, table, fault) ==
    LET o == r.options
        q == buildWhere("PUT", r, o)
        hq == HookEvents("beforeQuery", o, fault)
        m == Matching(table, q.where)
        i == First(m)
        instance == SetFields(Record(table, i), r.body)
        e1 == hq \o <<Ev("findOne", "ok")>>
        e2 == e1 \o SetEvents(r.body) \o HookEvents("beforeUpdate", o, fault)
        saved == Save(table, i, instance)
        e3 == e2 \o <<Ev("save", "ok")>> \o HookEvents("afterUpdate", o, fault)
        Caught(e, events, t) == Out(<<IndexPutCatch(e)>>, events, e, NoError, t, q)
    IN  IF fault.at = "beforeQuery" THEN Out(<<>>, hq, NoError, fault.err, table, q)
        ELSE IF fault.at = "findOne"
        THEN Caught(fault.err, hq \o <<Ev("findOne", fault.err.name)>>, table)
        ELSE IF m = {} THEN Caught(notFound, hq \o <<Ev("findOne", "null")>>, table)
        ELSE IF ~r.body.hasKey THEN Caught(TypeError, e1, table)
        ELSE IF fault.at = "beforeUpdate" THEN Caught(fault.err, e2, table)
        ELSE IF fault.at = "save"
        THEN Caught(fault.err, e2 \o <<Ev("save", fault.err.name)>>, table)
        ELSE IF fault.at = "afterUpdate" THEN Caught(fault.err, e3, saved)
        ELSE Out(<<Json(200, formatOutput(instance, FALSE, o))>>, e3,
                 NoError, NoError, saved, q)

\* PUT /:id
IndexPut(r, table, fault) ==
    CASE IndexPutGuard(r) = "throws" -> Out(<<>>, <<>>, NoError, TypeError, table, NoQuery)
      [] IndexPutGuard(r) = "reject" ->
            Out(<<Json(422, PrimaryKeyBody(r.pk))>>, <<>>, NoError, NoError, table, NoQuery)
      [] OTHER -> IndexPutChain(r, table, fault)

\* DELETE /:id, the catch
IndexDeleteCatch(e) ==
    CASE e.name = "SequelizeForeignKeyConstraintError" ->
            Json(400, [errors |-> <<[message |-> "foreign key constraint error"]>>])
      [] e = notFound -> Json(404, MessageBody(e))
      [] OTHER -> Json(500, MessageBody(e))

\* DELETE /:id
IndexDelete(r, table, fault) ==
    LET o == r.options
        q == buildWhere("DELETE", r, o)
        hq == HookEvents("beforeQuery", o, fault)
        gone == Destroyed(table, q)
        ev == hq \o <<Ev("destroy", Count(gone))>>
    IN  IF fault.at = "beforeQuery" THEN Out(<<>>, hq, NoError, fault.err, table, q)
        ELSE IF fault.at = "destroy"
        THEN Out(<<IndexDeleteCatch(fault.err)>>,
                 hq \o <<Ev("destroy", fault.err.name)>>, fault.err, NoError, table, q)
        ELSE IF Count(gone) # "1"
        THEN Out(<<IndexDeleteCatch(notFound)>>, ev, notFound, NoError, Destroy(table, q), q)
        ELSE Out(<<Json(200, [status |-> "ok"])>>, ev, NoError, NoError, Destroy(table, q), q)

\* --------------------------------------------- the exported handler functions
\* handleRequestError(req, res): the shared catch of the handler functions
handleRequestError(r, e) ==
    CASE e.name \in {"SequelizeValidationError", "SequelizeUniqueConstraintError"} ->
            Json(422, ViolationBody(e))
      [] e.name = "SequelizeForeignKeyConstraintError" ->
            Json(400, [errors |-> <<[message |-> "foreign key constraint error"]>>])
      [] e.name = "SequelizeDatabaseError" /\ r.method = "PUT" -> Json(422, MessageBody(e))
      [] e = notFound -> Json(404, MessageBody(e))
      [] OTHER -> Json(500, MessageBody(e))

\* execHook(HOOK.<name>, options, model, record)
execHook(name, options, fault) ==
    IF name \in options.hooks
    THEN <<Ev(name, IF fault.at = name THEN "throw" ELSE "ok")>>
    ELSE <<>>

\* the query a route hands to a handler function: buildWhere's, constrained
\* to the parent's rows on a child route /:parent/<child>/...
RouteQuery(method, r) ==
    LET b == buildWhere(method, r, r.options)
    IN  IF r.parent = "" THEN b
        ELSE [b EXCEPT !.where = [b.where EXCEPT !.authorId = Eq(r.parent)]]

findOne(r, q, table, fault) ==
    LET m == Matching(table, q.where)
    IN  IF fault.at = "findOne"
        THEN Out(<<handleRequestError(r, fault.err)>>,
                 <<Ev("findOne", fault.err.name)>>, fault.err, NoError, table, q)
        ELSE IF m = {}
        THEN Out(<<handleRequestError(r, notFound)>>,
                 <<Ev("findOne", "null")>>, notFound, NoError, table, q)
        ELSE Out(<<Json(200, formatOutput(Record(table, First(m)), FALSE, r.options))>>,
                 <<Ev("findOne", "ok")>>, NoError, NoError, table, q)

findAll(r, q, table, fault) ==
    IF fault.at = "findAll"
    THEN Out(<<Json(500, MessageBody(fault.err))>>,
             <<Ev("findAll", fault.err.name)>>, fault.err, NoError, table, q)
    ELSE Out(<<Json(200, formatOutput(RowsOf(table, Matching(table, q.where)), TRUE,
                                      r.options))>>,
             <<Ev("findAll", "ok")>>, NoError, NoError, table, q)

createRecord(r, q, table, fault) ==
    LET i == NewId(table, r.body)
        created == [table EXCEPT ![i] = NewRow(r.body, r.author)]
        ha == execHook("afterCreate", r.options, fault)
    IN  IF fault.at = "create"
        THEN Out(<<handleRequestError(r, fault.err)>>,
                 <<Ev("create", fault.err.name)>>, fault.err, NoError, table, q)
        ELSE IF fault.at = "afterCreate"
        THEN Out(<<handleRequestError(r, fault.err)>>,
                 <<Ev("create", "ok")>> \o ha, fault.err, NoError, created, q)
        ELSE Out(<<Json(201, formatOutput(Record(created, i), FALSE, r.options))>>,
                 <<Ev("create", "ok")>> \o ha, NoError, NoError, created, q)

\* updateRecord, the guard against changing the primary key
updateGuard(r) ==
    IF ~r.options.allowChangingPrimaryKey /\ r.pk # ""
    THEN (IF ~r.body.hasKey THEN "throws"
          ELSE IF r.body.id # Undef /\ LooseNeq(r.id, r.body.id) THEN "reject"
          ELSE "pass")
    ELSE "pass"

\* updateRecord, the promise chain from findOne to the response
updateChain(r, q, table, fault) ==
    LET o == r.options
        m == Matching(table, q.where)
        i == First(m)
        instance == SetFields(Record(table, i), r.body)
        e1 == <<Ev("findOne", "ok")>>
        e2 == e1 \o SetEvents(r.body) \o execHook("beforeUpdate", o, fault)
        saved == Save(table, i, instance)
        e3 == e2 \o <<Ev("save", "ok")>> \o execHook("afterUpdate", o, fault)
        Caught(e, events, t) ==
            Out(<<handleRequestError(r, e)>>, events, e, NoError, t, q)
    IN  IF fault.at = "findOne"
        THEN Caught(fault.err, <<Ev("findOne", fault.err.name)>>, table)
        ELSE IF m = {} THEN Caught(notFound, <<Ev("findOne", "null")>>, table)
        ELSE IF ~r.body.hasKey THEN Caught(TypeError, e1, table)
        ELSE IF fault.at = "beforeUpdate" THEN Caught(fault.err, e2, table)
        ELSE IF fault.at = "save"
        THEN Caught(fault.err, e2 \o <<Ev("save", fault.err.name)>>, table)
        ELSE IF fault.at = "afterUpdate" THEN Caught(fault.err, e3, saved)
        ELSE Out(<<Json(200, formatOutput(instance, FALSE, o))>>, e3,
                 NoError, NoError, saved, q)

updateRecord(r, q, table, fault) ==
    CASE updateGuard(r) = "throws" -> Out(<<>>, <<>>, NoError, TypeError, table, q)
      [] updateGuard(r) = "reject" ->
            Out(<<Json(422, PrimaryKeyBody(r.pk))>>, <<>>, NoError, NoError, table, q)
      [] OTHER -> updateChain(r, q, table, fault)

deleteRecord(r, q, table, fault) ==
    IF fault.at = "destroy"
    THEN Out(<<handleRequestError(r, fault.err)>>,
             <<Ev("destroy", fault.err.name)>>, fault.err, NoError, table, q)
    ELSE Out(<<Json(200, [status |-> "ok"])>>,
             <<Ev("destroy", Count(Destroyed(table, q)))>>, NoError, NoError,
             Destroy(table, q), q)

\* ------------------------------------------------------------------ state
VARIABLES
    db,        \* the table of the model
    req,       \* the request being served, NoRequest between requests
    res,       \* the responses sent for it (status, body), in order
    events,    \* the storage calls, sets and hooks of the handler, in order
    caught,    \* the error the handler's catch received
    escaped,   \* the exception that left the handler
    query,     \* the query descriptor built for the request
    again,     \* req is a repeat of the request served just before
    first,     \* the responses that request got
    factory    \* the last createController call and what it gave

vars == <<db, req, res, events, caught, escaped, query, again, first, factory>>

NoBody == [hasKey |-> FALSE, id |-> Undef, title |-> Undef]
NoRequest ==
    [ impl |-> "", method |-> "", route |-> "", id |-> "", parent |-> "",
      author |-> "", body |-> NoBody, qs |-> NoQueryString,
      options |-> Defaults, pk |-> "" ]

\* (options, model.primaryKeyField) of the controllers a route is reached
\* through
Controllers(route) ==
    CASE route = "list" -> { <<Defaults, "id">>, <<Postgres, "id">>, <<Hooked, "id">> }
      [] route = "get" -> { <<Defaults, "id">>, <<Postgres, "id">>, <<Hooked, "id">> }
      [] route = "create" -> { <<Defaults, "id">>, <<Renamed, "id">>, <<Hooked, "id">> }
      [] route = "update" -> { <<Defaults, "id">>, <<Lenient, "id">>, <<Hooked, "id">>,
                               <<Defaults, "">> }
      [] OTHER -> { <<Defaults, "id">>, <<Hooked, "id">> }

\* the copies of the handlers and the parents a request can name: the
\* routes of createController have no parent, the handler functions serve
\* both the plain and the child routes
Mounts == { <<"index", "">> } \cup { <<"handlers", p>> : p \in {""} \cup Authors }

Request(mount, method, route, id, author, body, qs, c) ==
    [ impl |-> mount[1], method |-> method, route |-> route, id |-> id,
      parent |-> mount[2], author |-> author, body |-> body, qs |-> qs,
      options |-> c[1], pk |-> c[2] ]

\* the calls of a request's handler that can fail; a handler function is
\* handed its query, so the before-query hook is not among its calls
Calls(r) ==
    (CASE r.route = "list" -> {"findAll"}
       [] r.route = "get" -> {"findOne"}
       [] r.route = "create" -> {"create", "afterCreate"}
       [] r.route = "update" -> {"findOne", "beforeUpdate", "save", "afterUpdate"}
       [] OTHER -> {"destroy"})
    \cup (IF r.impl = "index" THEN {"beforeQuery"} ELSE {})

\* the handler serving request r
Handle(r, table, fault) ==
    CASE r.impl = "index" /\ r.route = "list" -> IndexGetAll(r, table, fault)
      [] r.impl = "index" /\ r.route = "get" -> IndexGetOne(r, table, fault)
      [] r.impl = "index" /\ r.route = "create" -> IndexPost(r, table, fault)
      [] r.impl = "index" /\ r.route = "update" -> IndexPut(r, table, fault)
      [] r.impl = "index" /\ r.route = "delete" -> IndexDelete(r, table, fault)
      [] r.impl = "handlers" /\ r.route = "list" ->
            findAll(r, RouteQuery("GET", r), table, fault)
      [] r.impl = "handlers" /\ r.route = "get" ->
            findOne(r, RouteQuery("GET", r), table, fault)
      [] r.impl = "handlers" /\ r.route = "create" ->
            createRecord(r, RouteQuery("POST", r), table, fault)
      [] r.impl = "handlers" /\ r.route = "update" ->
            updateRecord(r, RouteQuery("PUT", r), table, fault)
      [] OTHER ->
            deleteRecord(r, RouteQuery("DELETE", r), table, fault)

\* the storage layer cannot create a row without a free id for it
Feasible(r, table, fault) ==
    (r.route = "create" /\ fault.at \in {"", "afterCreate"}) => NewId(table, r.body) # ""

Serve(r, fault, repeat) ==
    /\ Feasible(r, db, fault)
    /\ \E out \in {Handle(r, db, fault)} :
        /\ req' = r
        /\ db' = out.table
        /\ res' = out.res
        /\ events' = out.events
        /\ caught' = out.caught
        /\ escaped' = out.escaped
        /\ query' = out.query
        /\ again' = repeat
        /\ first' = IF repeat THEN res ELSE <<>>
        /\ UNCHANGED factory

\* ------------------------------------------------------ controller factory
Methods == {"get", "put", "post", "delete"}
RoutesOf(m) ==
    CASE m = "get" -> {"GET /", "GET /:id"}
      [] m = "put" -> {"PUT /:id"}
      [] m = "post" -> {"POST /"}
      [] OTHER -> {"DELETE /:id"}

\* the `handlers` option of the caller: not given, or a map in which a
\* method is true, false or missing
NotGiven == [m \in Methods |-> "not given"]
HandlerOptions == {NotGiven} \cup [Methods -> {"true", "false", "missing"}]

\* Object.assign(defaults, options): a given `handlers` replaces the default
\* map as a whole
MergedHandlers(given) ==
    IF given = NotGiven THEN [m \in Methods |-> "true"] ELSE given

NoFactory ==
    [ called |-> FALSE, valid |-> FALSE, given |-> NotGiven, threw |-> "",
      returned |-> FALSE, routes |-> {} ]

\* createController(model, options): the get routes are registered from
\* options.handlers; the test for the post routes reads `req`, which is not
\* defined in the factory, and throws
createController(valid, given) ==
    LET h == MergedHandlers(given)
        get == IF h["get"] = "true" THEN RoutesOf("get") ELSE {}
    IN  IF ~valid
        THEN [ called |-> TRUE, valid |-> valid, given |-> given, threw |-> "TypeError",
               returned |-> FALSE, routes |-> {} ]
        ELSE [ called |-> TRUE, valid |-> valid, given |-> given,
               threw |-> "ReferenceError", returned |-> FALSE, routes |-> get ]

Init ==
    /\ db \in Tables
    /\ req = NoRequest
    /\ res = <<>>
    /\ events = <<>>
    /\ caught = NoError
    /\ escaped = NoError
    /\ query = NoQuery
    /\ again = FALSE
    /\ first = <<>>
    /\ factory = NoFactory

GetAll ==
    /\ req = NoRequest
    /\ \E mount \in Mounts, qs \in QueryStrings, c \in Controllers("list") :
          LET r == Request(mount, "GET", "list", "", "", NoBody, qs, c)
          IN  \E fault \in Faults(r.options, Calls(r)) : Serve(r, fault, FALSE)

GetOne ==
    /\ req = NoRequest
    /\ \E mount \in Mounts, id \in Ids, qs \in QueryStrings, c \in Controllers("get") :
          LET r == Request(mount, "GET", "get", id, "", NoBody, qs, c)
          IN  \E fault \in Faults(r.options, Calls(r)) : Serve(r, fault, FALSE)

\* a created row belongs to the parent of a child route, else to the author
\* its body names (author "1")
Create ==
    /\ req = NoRequest
    /\ \E mount \in Mounts, body \in Bodies, c \in Controllers("create") :
          LET author == IF mount[2] = "" THEN "1" ELSE mount[2]
              r == Request(mount, "POST", "create", "", author, body, NoQueryString, c)
          IN  \E fault \in Faults(r.options, Calls(r)) : Serve(r, fault, FALSE)

Update ==
    /\ req = NoRequest
    /\ \E mount \in Mounts, id \in Ids, body \in Bodies, c \in Controllers("update") :
          LET r == Request(mount, "PUT", "update", id, "", body, NoQueryString, c)
          IN  \E fault \in Faults(r.options, Calls(r)) : Serve(r, fault, FALSE)

Delete ==
    /\ req = NoRequest
    /\ \E mount \in Mounts, id \in Ids, c \in Controllers("delete") :
          LET r == Request(mount, "DELETE", "delete", id, "", NoBody, NoQueryString, c)
          IN  \E fault \in Faults(r.options, Calls(r)) : Serve(r, fault, FALSE)

\* the client issues the request it just got answered once more
Repeat ==
    /\ req.method = "DELETE"
    /\ ~again
    /\ \E fault \in Faults(req.options, Calls(req)) : Serve(req, fault, TRUE)

\* the request is over: its per-request state is dropped
Finish ==
    /\ req # NoRequest
    /\ req' = NoRequest
    /\ res' = <<>>
    /\ events' = <<>>
    /\ caught' = NoError
    /\ escaped' = NoError
    /\ query' = NoQuery
    /\ again' = FALSE
    /\ first' = <<>>
    /\ UNCHANGED <<db, factory>>

\* createController(model, options)
CreateController ==
    /\ \E valid \in BOOLEAN, given \in HandlerOptions :
          factory' = createController(valid, given)
    /\ UNCHANGED <<db, req, res, events, caught, escaped, query, again, first>>

Next == GetAll \/ GetOne \/ Create \/ Update \/ Delete \/ Repeat \/ Finish

Spec == Init /\ [][Next]_vars

\* the construction of controllers, apart from the serving of requests
FactorySpec == Init /\ [][CreateController]_vars

\* ----------------------------------------------------------------- claims
Has(op, out) == \E k \in 1..Len(events) : events[k] = Ev(op, out)
Called(op) == \E k \in 1..Len(events) : events[k].op = op
Answered(status) == Len(res) = 1 /\ res[1].status = status
ErrorsBody(body) == "errors" \in DOMAIN body /\ Len(body.errors) >= 1

\* the primary key of the body differs from the path id, and the
\* controller does not allow changing it
Mismatch ==
    /\ req.route = "update"
    /\ ~req.options.allowChangingPrimaryKey
    /\ req.pk = "id"
    /\ req.body.hasKey
    /\ req.body.id # Undef
    /\ (req.body.id.t = "null" \/ req.body.id.v # req.id)

\* C1: an update whose body carries a primary key different from the path
\* id, while allowChangingPrimaryKey is not true, is answered 422 with no
\* findOne, set, save, before-update or after-update hook having run, and
\* the table is as it was before the request.
C1_PrimaryKeyGuard ==
    [][ Mismatch' =>
          /\ Len(res') = 1
          /\ res'[1].status = 422
          /\ \A k \in 1..Len(events') :
                events'[k].op \notin {"findOne", "set", "save", "beforeUpdate", "afterUpdate"}
          /\ db' = db ]_vars

C1_Witness == Mismatch /\ Answered(422) /\ db[req.id] # NoRow

\* C2: a DELETE /:id whose destroy resolves is answered 200 whatever the
\* count of rows destroyed (never 404), so the same delete issued twice in a
\* row is answered 200 both times.
C2_DeleteTwice ==
    (req.route = "delete" /\ req.parent = "" /\ (Has("destroy", "0") \/ Has("destroy", "1")))
        => /\ Answered(200)
           /\ ((again /\ Len(first) = 1 /\ first[1].status = 200) => Answered(200))

\* C3: a create whose storage create succeeds is answered 201 with an
\* envelope of exactly one key, the model's name or overrideOutputName,
\* holding the created record.
C3_Created ==
    (req.route = "create" /\ Has("create", "ok") /\ ~Has("afterCreate", "throw"))
        => /\ Answered(201)
           /\ LET key == IF req.options.overrideOutputName # ""
                         THEN req.options.overrideOutputName ELSE ModelName
              IN  /\ DOMAIN res[1].body = {key}
                  /\ res[1].body[key].id \in Ids
                  /\ res[1].body[key] = Record(db, res[1].body[key].id)

\* C4: a GET by id whose findOne returns no record is answered 404 with a
\* non-empty errors array, and 200 is sent only when findOne returned a
\* record.
C4_NotFound ==
    req.route = "get" =>
        /\ Has("findOne", "null") => (Answered(404) /\ ErrorsBody(res[1].body))
        /\ \A k \in 1..Len(res) : res[k].status = 200 => Has("findOne", "ok")

C4_Witness == req.route = "get" /\ Has("findOne", "null") /\ Answered(404)

\* C5: every failure while a request is handled is caught in the handler
\* and becomes exactly one response, with a status outside 200..299 and a
\* body holding an errors array; no exception leaves the handler, and no
\* request gets zero or two responses.
C5_AllCaught ==
    req # NoRequest =>
        /\ escaped = NoError
        /\ Len(res) = 1
        /\ caught # NoError =>
              (res[1].status \notin 200..299 /\ ErrorsBody(res[1].body))

\* a storage call of the request rejected
StorageFailed ==
    \E k \in 1..Len(events) :
        events[k].op \in {"findOne", "create", "save", "destroy"}
        /\ events[k].out \in ErrorNames

\* C6: in the create, update and delete handlers a storage failure is
\* answered by its kind alone: validation or unique-constraint 422 with one
\* {message, field} per violation, foreign-key 400 with the fixed message,
\* not-found 404, database error on update 422, anything else 500.
C6_ErrorTable ==
    (req.route \in {"create", "update", "delete"} /\ (StorageFailed \/ caught = notFound))
        => /\ Len(res) = 1
           /\ CASE caught.name \in {"SequelizeValidationError",
                                     "SequelizeUniqueConstraintError"} ->
                     /\ res[1].status = 422
                     /\ Len(res[1].body.errors) = Len(caught.errors)
                     /\ \A k \in 1..Len(caught.errors) :
                           res[1].body.errors[k] =
                               [ message |-> caught.errors[k].message,
                                 field |-> caught.errors[k].path ]
                [] caught.name = "SequelizeForeignKeyConstraintError" ->
                     /\ res[1].status = 400
                     /\ res[1].body.errors = <<[message |-> "foreign key constraint error"]>>
                [] caught = notFound -> res[1].status = 404
                [] caught.name = "SequelizeDatabaseError" /\ req.route = "update" ->
                     res[1].status = 422
                [] OTHER -> res[1].status = 500

\* the request passed the primary-key check of the update handler
Passed ==
    /\ req.route = "update"
    /\ (~req.options.allowChangingPrimaryKey /\ req.pk # "") => (req.body.hasKey /\ ~Mismatch)

NoFailure ==
    /\ escaped = NoError
    /\ \A k \in 1..Len(events) : events[k].out \notin ErrorNames \cup {"throw"}

\* C7: on a child route, a GET, PUT or DELETE of a row that exists under
\* another parent than the one in the path is answered 404, and the row is
\* neither returned, changed nor deleted.
C7_OtherParent ==
    [][ ( /\ req'.parent # ""
          /\ req'.route \in {"get", "update", "delete"}
          /\ req'.qs = NoQueryString
          /\ req'.route = "update" => Passed'
          /\ db[req'.id] # NoRow
          /\ db[req'.id].authorId # req'.parent
          /\ NoFailure' )
        => (Len(res') = 1 /\ res'[1].status = 404 /\ db' = db) ]_vars

\* C8: createController with a valid model returns a router on which the
\* routes of each method are registered exactly when handlers[method] is
\* true in the merged configuration (all five by default).
C8_Routes ==
    (factory.called /\ factory.valid) =>
        /\ factory.returned
        /\ \A m \in Methods :
              (RoutesOf(m) \subseteq factory.routes) <=>
                  (factory.given = NotGiven \/ factory.given[m] = "true")

\* C9: with a path id and no before-query hook, the query descriptor
\* constrains the id of its filter map to exactly the path id, whatever
\* filter[..] and search[..] parameters the request carries.
C9_PathId ==
    (req.id # "" /\ "beforeQuery" \notin req.options.hooks /\ query # NoQuery)
        => query.where.id = Eq(req.id)

\* the place of a call in the update handler
Rank(op) ==
    CASE op = "beforeQuery" -> 0
      [] op = "findOne" -> 1
      [] op = "set" -> 2
      [] op = "beforeUpdate" -> 3
      [] op = "save" -> 4
      [] op = "afterUpdate" -> 5
      [] OTHER -> 6
IsSet(e) == e.op = "set"

\* C10: an update that passed the primary-key check runs findOne, then
\* (only when a record was found) one set per supplied field, then the
\* before-update hook, then save, then (only when save succeeded) the
\* after-update hook, then the 200 response; nothing after a findOne that
\* found nothing, and no after-update hook after a failed save.
C10_UpdateOrder ==
    Passed =>
        /\ \A j, k \in 1..Len(events) :
              j < k => /\ Rank(events[j].op) <= Rank(events[k].op)
                       /\ Rank(events[j].op) = Rank(events[k].op) => events[j].op = "set"
        /\ ~Has("findOne", "ok") =>
              ~(Called("set") \/ Called("beforeUpdate") \/ Called("save")
                  \/ Called("afterUpdate") \/ Answered(200))
        /\ (Has("findOne", "ok") /\ req.body.hasKey) =>
              /\ { e.out : e \in { events[k] : k \in { n \in 1..Len(events) : IsSet(events[n]) } } }
                    = { f \in {"id", "title"} : req.body[f] # Undef }
              /\ Len(SelectSeq(events, IsSet))
                    = Cardinality({ f \in {"id", "title"} : req.body[f] # Undef })
              /\ "beforeUpdate" \in req.options.hooks => Called("beforeUpdate")
              /\ ~Has("beforeUpdate", "throw") => Called("save")
        /\ Called("save") =>
              ("beforeUpdate" \in req.options.hooks => Has("beforeUpdate", "ok"))
        /\ Called("afterUpdate") => Has("save", "ok")
        /\ (Has("save", "ok") /\ "afterUpdate" \in req.options.hooks) => Called("afterUpdate")
        /\ Answered(200) =>
              /\ Has("save", "ok")
              /\ "afterUpdate" \in req.options.hooks => Has("afterUpdate", "ok")

C10_Witness ==
    /\ Passed
    /\ Answered(200)
    /\ Has("beforeUpdate", "ok")
    /\ Has("afterUpdate", "ok")
    /\ Len(SelectSeq(events, IsSet)) = 2

====
